---- MODULE Spec2Model ----
(***************************************************************************)
(* Range-selection engine of src/components/TimelineSlicer.tsx: calendar   *)
(* floor/ceil, the range normalizer, the coordinate mapper, the drag state *)
(* machine with its animation-frame batching, and the granularity switch.  *)
(*                                                                         *)
(* Time.  A Date is its timestamp.  The model counts timestamps in ticks   *)
(* of 1/TicksPerDay day from local midnight of 1 January EpochYear, with   *)
(* the proleptic Gregorian calendar and no daylight-saving shifts.         *)
(* Arithmetic the code does in floating point (pct, span / 2) is done      *)
(* exactly, and new Date(x) drops the fraction as TimeClip does.           *)
(*                                                                         *)
(* Rendering.  The consumer stores every range handed to onChange and      *)
(* feeds it back as `value`; the re-render that follows a state update is  *)
(* part of the step that made the update.  A frame callback keeps the      *)
(* render it was created in: it reads that render's normalizedRange and    *)
(* commitDrag (hence its granularity), but dragging.current when it runs.  *)
(***************************************************************************)
EXTENDS Integers, Sequences, FiniteSets, TLC

VARIABLES
    min,          \* prop min (timestamp)
    max,          \* prop max (timestamp)
    snap,         \* prop snap
    value,        \* the consumer's dateRange, fed back as prop value
    granularity,  \* useState granularity
    dragging,     \* dragging.current: "null", "start", "end" or "range"
    raf,          \* raf.current: 0 for null, else the last handle requested
    frames,       \* the browser's pending animation-frame callbacks: handle -> closure
    nextHandle,   \* the handle the next requestAnimationFrame returns
    capture,      \* the browser's pointer captures: pointer -> element, or "none"
    emitted       \* the ranges the last step handed to onChange, in order

vars == <<min, max, snap, value, granularity, dragging, raf, frames,
          nextHandle, capture, emitted>>

(***************************************************************************)
(* Bounds of the model.                                                    *)
(***************************************************************************)
TicksPerDay == 2
YearSpan == 2
TrackWidth == 2
MaxFrames == 2

EpochYear == 2024

Granularities == {"day", "month", "quarter", "year"}
Targets == {"start", "end", "range"}
Pointers == DOMAIN capture
ClientXs == (0 - 1)..(TrackWidth + 1)

(***************************************************************************)
(* The Date object: local-time fields of a timestamp, and the constructor  *)
(* new Date(year, monthIndex, day) with its overflow of month and day.     *)
(***************************************************************************)
IsLeap(y) == (y % 4 = 0 /\ y % 100 # 0) \/ y % 400 = 0

DaysInYear(y) == IF IsLeap(y) THEN 366 ELSE 365

Years == EpochYear..(EpochYear + YearSpan)

\* leap years before year y
LeapsBefore(y) == ((y - 1) \div 4) - ((y - 1) \div 100) + ((y - 1) \div 400)

\* days from 1 January EpochYear to 1 January y
YearStart(y) == 365 * (y - EpochYear) + LeapsBefore(y) - LeapsBefore(EpochYear)

\* days from 1 January to the first of month m (0-based) in a common year
CumulativeDays == <<0, 31, 59, 90, 120, 151, 181, 212, 243, 273, 304, 334, 365>>

\* days from 1 January y to the first of month m of y; m = 12 is the year's end
MonthOffset(y, m) ==
    CumulativeDays[m + 1] + (IF IsLeap(y) /\ m >= 2 THEN 1 ELSE 0)

MaxDay == YearStart(EpochYear + YearSpan + 1) - 1

\* the civil date of day number n
Civil[n \in 0..MaxDay] ==
    LET y == CHOOSE yy \in Years : YearStart(yy) <= n /\ n < YearStart(yy + 1)
        k == n - YearStart(y)
        m == CHOOSE mm \in 0..11 : MonthOffset(y, mm) <= k /\ k < MonthOffset(y, mm + 1)
    IN  [year |-> y, month |-> m, date |-> k - MonthOffset(y, m) + 1]

getFullYear(d) == Civil[d \div TicksPerDay].year
getMonth(d) == Civil[d \div TicksPerDay].month
getDate(d) == Civil[d \div TicksPerDay].date

NewDate_NoCarry(y, m, day) ==
    (YearStart(y) + MonthOffset(y, m % 12) + day - 1) * TicksPerDay

\* new Date(y, m, day): a month index past 11 carries into the year, and a
\* day past the month's end carries into the following days
NewDate(y, m, day) ==
    (YearStart(y + (m \div 12)) + MonthOffset(y + (m \div 12), m % 12) + day - 1)
        * TicksPerDay

(***************************************************************************)
(* dateUtils                                                               *)
(***************************************************************************)
ClampDate_NoUpper(d, minD, maxD) == IF d < minD THEN minD ELSE d

ClampDate(d, minD, maxD) ==
    IF d < minD THEN minD
    ELSE IF d > maxD THEN maxD
    ELSE d

FloorDate_HalvesMonth(d, g) ==
    IF g = "day" THEN NewDate(getFullYear(d), getMonth(d), getDate(d))
    ELSE IF g = "month" THEN NewDate(getFullYear(d), getMonth(d), 1)
    ELSE IF g = "quarter" THEN NewDate(getFullYear(d), (getMonth(d) \div 3) * 3, 1)
    ELSE IF g = "year" THEN NewDate(getFullYear(d), getMonth(d) \div 2, 1)
    ELSE d

\* floorToGranularity, statement by statement
FloorDate(d, g) ==
    IF g = "day" THEN NewDate(getFullYear(d), getMonth(d), getDate(d))
    ELSE IF g = "month" THEN NewDate(getFullYear(d), getMonth(d), 1)
    ELSE IF g = "quarter" THEN NewDate(getFullYear(d), (getMonth(d) \div 3) * 3, 1)
    ELSE IF g = "year" THEN NewDate(getFullYear(d), 0, 1)
    ELSE d

CeilDate_Floors(d, g) == FloorDate(d, g)

\* ceilToGranularity, statement by statement
CeilDate(d, g) ==
    LET floored == FloorDate(d, g) IN
    IF floored = d THEN d
    ELSE IF g = "day" THEN NewDate(getFullYear(d), getMonth(d), getDate(d) + 1)
    ELSE IF g = "month" THEN NewDate(getFullYear(floored), getMonth(floored) + 1, 1)
    ELSE IF g = "quarter" THEN NewDate(getFullYear(floored), getMonth(floored) + 3, 1)
    ELSE IF g = "year" THEN NewDate(getFullYear(floored) + 1, 0, 1)
    ELSE d

\* the timestamps of the modelled years are 0..(NumDates - 1)
NumDates == (MaxDay + 1) * TicksPerDay

\* both functions evaluated once for every timestamp and granularity
FloorTable ==
    [g \in Granularities |-> [i \in 1..NumDates |-> FloorDate(i - 1, g)] \o << >>]

CeilTable ==
    [g \in Granularities |-> [i \in 1..NumDates |-> CeilDate(i - 1, g)] \o << >>]

FloorToGranularity(d, g) == FloorTable[g][d + 1]

CeilToGranularity(d, g) == CeilTable[g][d + 1]

Range(s, e) == [start |-> s, end |-> e]

(***************************************************************************)
(* TimelineSlicer: values derived in a render                              *)
(***************************************************************************)
NormalizedRange_NoSwap(v, mn, mx, sn, g) ==
    LET s0 == ClampDate(v.start, mn, mx)
        e0 == ClampDate(v.end, mn, mx)
    IN  IF sn
        THEN Range(ClampDate(FloorToGranularity(s0, g), mn, mx),
                   ClampDate(CeilToGranularity(e0, g), mn, mx))
        ELSE Range(s0, e0)

NormalizedRange_NoReclamp(v, mn, mx, sn, g) ==
    LET s0 == ClampDate(v.start, mn, mx)
        e0 == ClampDate(v.end, mn, mx)
        s1 == IF s0 > e0 THEN e0 ELSE s0
        e1 == IF s0 > e0 THEN s0 ELSE e0
    IN  IF sn
        THEN Range(FloorToGranularity(s1, g), CeilToGranularity(e1, g))
        ELSE Range(s1, e1)

\* useMemo normalizedRange, as a function of its dependencies
NormalizedRange(v, mn, mx, sn, g) ==
    LET s0 == ClampDate(v.start, mn, mx)
        e0 == ClampDate(v.end, mn, mx)
        s1 == IF s0 > e0 THEN e0 ELSE s0
        e1 == IF s0 > e0 THEN s0 ELSE e0
    IN  IF sn
        THEN Range(ClampDate(FloorToGranularity(s1, g), mn, mx),
                   ClampDate(CeilToGranularity(e1, g), mn, mx))
        ELSE Range(s1, e1)

\* normalizedRange of the current render
normalizedRange == NormalizedRange(value, min, max, snap, granularity)

Max2(a, b) == IF a > b THEN a ELSE b
Min2(a, b) == IF a < b THEN a ELSE b

total_Unguarded == max - min

total == Max2(1, max - min)

\* pointerToPct with rect.left = 0 and rect.width = TrackWidth; the
\* percentage is kept as the exact fraction num / den
PointerToPct(clientX) ==
    LET clampedX == Max2(0, Min2(clientX, TrackWidth))
    IN  [num |-> clampedX * 100, den |-> TrackWidth]

\* toPct: (100 * (d.getTime() - min.getTime())) / total, as an exact fraction
ToPct(d) == [num |-> 100 * (d - min), den |-> total]

FromPct_FromZero(pct) == (pct.num * total) \div (pct.den * 100)

\* fromPct: new Date(min.getTime() + (pct / 100) * total)
FromPct(pct) == min + ((pct.num * total) \div (pct.den * 100))

CommitDrag_SwapsLast(newStart, newEnd, g) ==
    LET s1 == IF snap THEN FloorToGranularity(newStart, g) ELSE newStart
        e1 == IF snap THEN CeilToGranularity(newEnd, g) ELSE newEnd
        s2 == ClampDate(s1, min, max)
        e2 == ClampDate(e1, min, max)
    IN  IF s2 > e2 THEN Range(e2, s2) ELSE Range(s2, e2)

\* commitDrag of a render with granularity g: the range handed to setRange
CommitDrag(newStart, newEnd, g) ==
    LET s0 == IF newStart > newEnd THEN newEnd ELSE newStart
        e0 == IF newStart > newEnd THEN newStart ELSE newEnd
        s1 == IF snap THEN FloorToGranularity(s0, g) ELSE s0
        e1 == IF snap THEN CeilToGranularity(e0, g) ELSE e0
        s2 == ClampDate(s1, min, max)
        e2 == ClampDate(e1, min, max)
    IN  IF s2 > e2 THEN Range(e2, s2) ELSE Range(s2, e2)

BandWindow_CutsAtBounds(dateAt, nr) ==
    LET span == nr.end - nr.start
        sA == 2 * dateAt - span
        eA == 2 * dateAt + span
        sB == IF sA < 2 * min THEN 2 * min ELSE sA
        eB == IF eA > 2 * max THEN 2 * max ELSE eA
    IN  Range(sB \div 2, eB \div 2)

\* the "range" branch of the frame callback: the window of nr's length
\* centred on dateAt and shifted back inside [min, max].  Halves are kept
\* by working on doubled timestamps; new Date(s) drops the fraction.
BandWindow(dateAt, nr) ==
    LET span == nr.end - nr.start
        sA == 2 * dateAt - span
        eA == 2 * dateAt + span
        sB == IF sA < 2 * min THEN 2 * min ELSE sA
        eB == IF sA < 2 * min THEN eA + (2 * min - sA) ELSE eA
        sC == IF eB > 2 * max THEN sB - (eB - 2 * max) ELSE sB
        eC == IF eB > 2 * max THEN 2 * max ELSE eB
    IN  Range(sC \div 2, eC \div 2)

DragRange_CollapsesToPointer(c, which) ==
    LET dateAt == FromPct(PointerToPct(c.clientX)) IN
    IF which = "range"
    THEN LET w == BandWindow(dateAt, c.nr)
         IN  CommitDrag(w.start, w.end, c.granularity)
    ELSE CommitDrag(dateAt, dateAt, c.granularity)

\* the range a frame callback hands to onChange: c is the closure of the
\* pointer-move (its clientX, its render's normalizedRange and granularity),
\* which is dragging.current when the callback runs
DragRange(c, which) ==
    LET dateAt == FromPct(PointerToPct(c.clientX)) IN
    IF which = "start" THEN CommitDrag(dateAt, c.nr.end, c.granularity)
    ELSE IF which = "end" THEN CommitDrag(c.nr.start, dateAt, c.granularity)
    ELSE LET w == BandWindow(dateAt, c.nr)
         IN  CommitDrag(w.start, w.end, c.granularity)

GranularityChangeRange_Reset(nr, newGranularity) == Range(min, max)

\* the range handleGranularityChange hands to setRange
GranularityChangeRange(nr, newGranularity) ==
    Range(ClampDate(FloorToGranularity(nr.start, newGranularity), min, max),
          ClampDate(CeilToGranularity(nr.end, newGranularity), min, max))

(***************************************************************************)
(* Initial states: a mounted TimelineSlicer                                *)
(***************************************************************************)
Noon == TicksPerDay \div 2

\* min and max: the plugin's fallback bounds, bounds off the day grid that
\* span a year's end, and a zero-width interval
BoundsSet ==
    { <<NewDate(EpochYear, 0, 1), NewDate(EpochYear, 11, 31)>>,
      <<NewDate(EpochYear, 10, 20) + Noon, NewDate(EpochYear + 1, 1, 10) + Noon>>,
      <<NewDate(EpochYear, 2, 5) + Noon, NewDate(EpochYear, 2, 5) + Noon>> }

\* what no event has touched yet, on a device with the pointers ptrs
Mounted(ptrs) ==
    /\ dragging = "null"
    /\ raf = 0
    /\ frames = << >>
    /\ nextHandle = 1
    /\ capture = [p \in ptrs |-> "none"]
    /\ emitted = << >>

\* SigmaTimelinePlugin mounts the slicer with value {minDate, maxDate} and
\* granularityProp "month"; snap is the slicer's prop
Props ==
    /\ \E b \in BoundsSet : min = b[1] /\ max = b[2]
    /\ snap \in BOOLEAN
    /\ value = Range(min, max)
    /\ granularity = "month"

\* one pointer: a mouse or a pen
Init == Props /\ Mounted({1})

\* two pointers: two fingers on a touch screen
InitTouch == Props /\ Mounted({1, 2})

\* the timestamps a raw value is drawn from: around and inside [mn, mx], and
\* dates inside a month of EpochYear
RawPoints(mn, mx) ==
    { mn - 1, mn, mn + ((mx - mn) \div 3), mx - ((mx - mn) \div 3), mx,
      mx + TicksPerDay,
      NewDate(EpochYear, 2, 5), NewDate(EpochYear, 2, 8),
      NewDate(EpochYear, 2, 15), NewDate(EpochYear, 2, 20) + Noon }

\* the slicer mounted with any raw value, ordered or not, and any granularityProp
InitRaw ==
    /\ \E b \in BoundsSet : min = b[1] /\ max = b[2]
    /\ snap \in BOOLEAN
    /\ \E s \in RawPoints(min, max), e \in RawPoints(min, max) : value = Range(s, e)
    /\ granularity \in Granularities
    /\ Mounted({1})

\* every timestamp up to the start of the last modelled year, which is left
\* for the ceils of the dates before it
Dates == 0..NewDate(EpochYear + YearSpan, 0, 1)

\* the slicer mounted over all of Dates with a selection of a single
\* instant d, for every timestamp d and every granularityProp
InitDates ==
    /\ min = 0
    /\ max = NewDate(EpochYear + YearSpan, 0, 1)
    /\ snap \in BOOLEAN
    /\ \E d \in Dates : value = Range(d, d)
    /\ granularity \in Granularities
    /\ Mounted({1})

(***************************************************************************)
(* Event handlers                                                          *)
(***************************************************************************)
\* onPointerDown on the start handle, the end handle or the band
PointerDown(p, which) ==
    /\ capture[p] = "none"
    /\ capture' = [capture EXCEPT ![p] = which]
    /\ dragging' = which
    /\ emitted' = << >>
    /\ UNCHANGED <<min, max, snap, value, granularity, raf, frames, nextHandle>>

Drop(f, h) == [k \in DOMAIN f \ {h} |-> f[k]]

\* the closure of a frame callback created by onPointerMove in this render
Closure(clientX) ==
    [clientX |-> clientX, nr |-> normalizedRange, granularity |-> granularity]

Schedule_NoCancel(c) == (nextHandle :> c) @@ frames

\* cancelAnimationFrame(raf.current), then requestAnimationFrame: the
\* callbacks pending afterwards
Schedule(c) ==
    (nextHandle :> c) @@ (IF raf # 0 THEN Drop(frames, raf) ELSE frames)

PointerMove_Unguarded(clientX) ==
    /\ emitted' = << >>
    /\ nextHandle <= MaxFrames
    /\ frames' = Schedule(Closure(clientX))
    /\ raf' = nextHandle
    /\ nextHandle' = nextHandle + 1
    /\ UNCHANGED <<min, max, snap, value, granularity, dragging, capture>>

\* onPointerMove of any pointer over the track
PointerMove(clientX) ==
    /\ emitted' = << >>
    /\ IF dragging = "null"
       THEN UNCHANGED <<raf, frames, nextHandle>>
       ELSE /\ nextHandle <= MaxFrames
            /\ frames' = Schedule(Closure(clientX))
            /\ raf' = nextHandle
            /\ nextHandle' = nextHandle + 1
    /\ UNCHANGED <<min, max, snap, value, granularity, dragging, capture>>

\* the callback the browser runs next: the oldest one pending
NextFrame == CHOOSE k \in DOMAIN frames : \A j \in DOMAIN frames : k <= j

\* what a frame callback hands to onChange when dragging.current is which
FrameCommits(c, which) ==
    IF which = "null" THEN << >> ELSE <<DragRange(c, which)>>

\* an animation frame: the browser runs a pending callback
Tick ==
    /\ DOMAIN frames # {}
    /\ frames' = Drop(frames, NextFrame)
    /\ emitted' = FrameCommits(frames[NextFrame], dragging)
    /\ value' = IF emitted' = << >> THEN value ELSE emitted'[Len(emitted')]
    /\ UNCHANGED <<min, max, snap, granularity, dragging, raf, nextHandle, capture>>

PointerUp_KeepsTarget(p) ==
    /\ capture' = [capture EXCEPT ![p] = "none"]
    /\ emitted' = << >>
    /\ UNCHANGED <<min, max, snap, value, granularity, dragging, raf, frames, nextHandle>>

\* onPointerUp, which is the handler of pointer-up and of pointer-cancel
PointerUp(p) ==
    /\ capture' = [capture EXCEPT ![p] = "none"]
    /\ dragging' = "null"
    /\ emitted' = << >>
    /\ UNCHANGED <<min, max, snap, value, granularity, raf, frames, nextHandle>>

\* a click on a granularity button
HandleGranularityChange(newGranularity) ==
    /\ granularity' = newGranularity
    /\ emitted' = <<GranularityChangeRange(normalizedRange, newGranularity)>>
    /\ value' = emitted'[1]
    /\ UNCHANGED <<min, max, snap, dragging, raf, frames, nextHandle, capture>>

Next ==
    \/ \E p \in Pointers, which \in Targets : PointerDown(p, which)
    \/ \E clientX \in ClientXs : PointerMove(clientX)
    \/ Tick
    \/ \E p \in Pointers : PointerUp(p)
    \/ \E g \in Granularities : HandleGranularityChange(g)

Spec == Init /\ [][Next]_vars

SpecTouch == InitTouch /\ [][Next]_vars

\* the renders of a slicer mounted with a raw value: only the granularity
\* buttons are used
NextRaw == \E g \in Granularities : HandleGranularityChange(g)

SpecRaw == InitRaw /\ [][NextRaw]_vars

SpecDates == InitDates /\ [][NextRaw]_vars

(***************************************************************************)
(* Steps, as seen from the state before and after                          *)
(***************************************************************************)
\* onPointerMove accepted the move and requested a frame
ScheduleStep == nextHandle' = nextHandle + 1

\* a frame callback ran
TickStep == nextHandle' = nextHandle /\ DOMAIN frames' # DOMAIN frames

\* handleGranularityChange ran
SwitchStep == emitted' # << >> /\ frames' = frames

\* a pointer went down on a handle or the band, or up while captured
DownStep(p, which) == capture[p] = "none" /\ capture'[p] = which /\ which # "none"
UpStep(p) == capture[p] # "none" /\ capture'[p] = "none"

InBounds(r) == min <= r.start /\ r.start <= r.end /\ r.end <= max

OnBoundary(d, g) == FloorToGranularity(d, g) = d

(***************************************************************************)
(* C1.  Every range handed to onChange, by a frame callback or by a        *)
(* granularity switch, after any sequence of pointer-down, pointer-move,   *)
(* frame, pointer-up/cancel and granularity-switch events, satisfies       *)
(* min <= start <= end <= max, with snap on or off.                        *)
(***************************************************************************)
C1_CommittedInBounds == \A i \in 1..Len(emitted) : InBounds(emitted[i])

\* a drag committed a range strictly inside the bounds
C1_Witness ==
    /\ dragging # "null"
    /\ emitted # << >>
    /\ min < emitted[1].start
    /\ emitted[1].start < emitted[1].end
    /\ emitted[1].end < max

(***************************************************************************)
(* C2.  For every raw value, inverted or out of bounds, every granularity  *)
(* and either snap setting, normalizedRange satisfies                      *)
(* min <= start <= end <= max: the clamp after the snap never inverts the  *)
(* order, although nothing swaps after it.                                 *)
(***************************************************************************)
C2_NormalizedInBounds == InBounds(normalizedRange)

\* an inverted raw value outside the bounds on both sides, snapped to
\* boundaries that lie outside the bounds
C2_Witness ==
    /\ snap
    /\ min < max
    /\ value.start > max
    /\ value.end < min
    /\ FloorToGranularity(min, granularity) < min
    /\ CeilToGranularity(max, granularity) > max
    /\ normalizedRange = Range(min, max)

(***************************************************************************)
(* C3.  The final pointer-move of a drag is never dropped: the move that   *)
(* is pending when the pointer goes up is committed, so whenever the       *)
(* pending callback leaves the frame list a range is handed to onChange.   *)
(***************************************************************************)
C3_FinalMoveCommitted ==
    [][(DOMAIN frames # {} /\ DOMAIN frames' = {}) => emitted' # << >>]_vars

(***************************************************************************)
(* C4.  A band-drag move commits a range of the length the range had when  *)
(* the move was received, whenever that length is at most max - min, for   *)
(* every granularity and snap setting.                                     *)
(***************************************************************************)
C4_BandDragKeepsSpan ==
    [][(TickStep /\ dragging = "range")
         => LET nr == frames[NextFrame].nr
            IN  nr.end - nr.start <= max - min
                  => /\ Len(emitted') = 1
                     /\ emitted'[1].end - emitted'[1].start = nr.end - nr.start]_vars

(***************************************************************************)
(* C5.  A band drag whose window, centred on the pointer's date, would     *)
(* extend past max commits {max - span, max}; one whose window would       *)
(* extend before min commits {min, min + span}.                            *)
(***************************************************************************)
C5_BandDragClampsWindow ==
    [][(TickStep /\ dragging = "range")
         => LET c == frames[NextFrame]
                span == c.nr.end - c.nr.start
                dateAt == FromPct(PointerToPct(c.clientX))
            IN  /\ 2 * dateAt + span > 2 * max
                     => emitted' = <<Range(max - span, max)>>
                /\ 2 * dateAt - span < 2 * min
                     => emitted' = <<Range(min, min + span)>>]_vars

(***************************************************************************)
(* C6.  With snap set, every normalized range and every range handed to    *)
(* onChange starts on a boundary of the current granularity or at min, and *)
(* ends on a boundary of the current granularity or at max.                *)
(***************************************************************************)
SnapAligned(r, g) ==
    /\ OnBoundary(r.start, g) \/ r.start = min
    /\ OnBoundary(r.end, g) \/ r.end = max

C6_SnapAligned ==
    snap => /\ SnapAligned(normalizedRange, granularity)
            /\ \A i \in 1..Len(emitted) : SnapAligned(emitted[i], granularity)

(***************************************************************************)
(* C7.  The drag state machine starts idle; dragging becomes X exactly on  *)
(* a pointer-down over X and becomes idle on every pointer-up or           *)
(* pointer-cancel; while idle, neither a pointer-move nor a frame hands a  *)
(* range to onChange or requests a frame.                                  *)
(***************************************************************************)
C7_Step ==
    /\ \A p \in Pointers, which \in Targets : DownStep(p, which) => dragging' = which
    /\ \A p \in Pointers : UpStep(p) => dragging' = "null"
    /\ dragging' # dragging
         => \/ dragging' = "null"
            \/ \E p \in Pointers : DownStep(p, dragging')
    /\ (dragging = "null" /\ frames' # frames)
         => /\ emitted' = << >>
            /\ value' = value
            /\ DOMAIN frames' \subseteq DOMAIN frames

C7_DragStateMachine == dragging = "null" /\ [][C7_Step]_vars

\* a pointer went up in the middle of a drag: idle, with the frame of an
\* accepted move still pending
C7_Witness == dragging = "null" /\ raf # 0 /\ DOMAIN frames = {raf}

(***************************************************************************)
(* C8.  Only one drag is active at a time: from a pointer-down on X until  *)
(* that pointer's up or cancel, dragging stays X, whatever the other       *)
(* pointers do.                                                            *)
(***************************************************************************)
C8_SingleActiveDrag ==
    \A p \in Pointers : capture[p] # "none" => dragging = capture[p]

(***************************************************************************)
(* C9.  Moves are coalesced through a single slot: at most one frame       *)
(* callback is pending, and it is the one requested last; an accepted      *)
(* pointer-move replaces the pending callback by its own; a frame hands at *)
(* most one range to onChange, computed from the closure of the move       *)
(* accepted last.                                                          *)
(***************************************************************************)
C9_Step ==
    /\ Cardinality(DOMAIN frames') <= 1
    /\ DOMAIN frames' \subseteq {raf'}
    /\ Len(emitted') <= 1
    /\ ScheduleStep
         => /\ DOMAIN frames' = {raf'}
            /\ raf' = nextHandle
            /\ \E x \in ClientXs : frames'[raf'] = Closure(x)
    /\ TickStep
         => /\ DOMAIN frames = {raf}
            /\ emitted' \in { << >>, <<DragRange(frames[raf], dragging)>> }

C9_SingleSlot == [][C9_Step]_vars

\* a second accepted move, its callback the only one pending
C9_Witness == nextHandle = 3 /\ DOMAIN frames = {2} /\ raf = 2

(***************************************************************************)
(* C10.  A granularity switch hands exactly one range to onChange: the     *)
(* current normalized start floored to the new granularity and the current *)
(* normalized end ceiled to it, each clamped into [min, max]; the          *)
(* selection is re-snapped, not reset to the bounds.                       *)
(***************************************************************************)
C10_Step ==
    SwitchStep
      => LET nr == normalizedRange
             g == granularity'
         IN  /\ emitted' = <<Range(ClampDate(FloorToGranularity(nr.start, g), min, max),
                                   ClampDate(CeilToGranularity(nr.end, g), min, max))>>
             /\ value' = emitted'[1]

C10_SwitchResnaps == [][C10_Step]_vars

\* idle, so the range was handed over by a switch: a selection re-snapped
\* to quarters that is not the full bounds
C10_Witness ==
    /\ dragging = "null"
    /\ granularity = "quarter"
    /\ emitted = <<value>>
    /\ min < value.start
    /\ value.end < max

\* the date under the pointer of the move whose closure is c
DateAt(c) == FromPct(PointerToPct(c.clientX))

(***************************************************************************)
(* C11.  A frame of a start-handle drag whose pointer date is not after    *)
(* the end of the range the move saw commits that end unchanged; a frame   *)
(* of an end-handle drag whose pointer date is not before the start the    *)
(* move saw commits that start unchanged.  Snap on or off.                 *)
(***************************************************************************)
C11_Step ==
    TickStep =>
        LET c == frames[NextFrame] IN
        /\ (dragging = "start" /\ DateAt(c) <= c.nr.end)
              => Len(emitted') = 1 /\ emitted'[1].end = c.nr.end
        /\ (dragging = "end" /\ DateAt(c) >= c.nr.start)
              => Len(emitted') = 1 /\ emitted'[1].start = c.nr.start

C11_HandleDragHoldsOtherEnd == [][C11_Step]_vars

\* a snapped start-handle drag that moved the start inward and kept an end
\* that an earlier end-handle drag had moved off max
C11_Witness ==
    /\ dragging = "start" /\ snap /\ Len(emitted) = 1
    /\ min < emitted[1].start /\ emitted[1].start < emitted[1].end
    /\ emitted[1].end < max

\* the pointer side of a committed range: the pointer date, snapped when
\* snap is on (floored as a start, ceiled as an end), then clamped
PointerStart(c) ==
    ClampDate(IF snap THEN FloorToGranularity(DateAt(c), c.granularity) ELSE DateAt(c),
              min, max)

PointerEnd(c) ==
    ClampDate(IF snap THEN CeilToGranularity(DateAt(c), c.granularity) ELSE DateAt(c),
              min, max)

(***************************************************************************)
(* C12.  A frame of an end-handle drag whose pointer date is before the    *)
(* start the move saw is not rejected: it commits one ordered range whose  *)
(* end is that former start and whose start is the pointer date, snapped   *)
(* and clamped as every commit is.  A frame of a start-handle drag past    *)
(* the end commits the former end as start and the pointer date as end.    *)
(***************************************************************************)
C12_Step ==
    TickStep =>
        LET c == frames[NextFrame] IN
        /\ (dragging = "end" /\ DateAt(c) < c.nr.start)
              => /\ emitted' = <<Range(PointerStart(c), c.nr.start)>>
                 /\ emitted'[1].start <= emitted'[1].end
        /\ (dragging = "start" /\ DateAt(c) > c.nr.end)
              => /\ emitted' = <<Range(c.nr.end, PointerEnd(c))>>
                 /\ emitted'[1].start <= emitted'[1].end

C12_CrossedDragSwaps == [][C12_Step]_vars

\* the end handle dragged to a date off the grid and before the start, with
\* snap on, and the frame of that move about to run
C12_Witness ==
    /\ dragging = "end" /\ snap /\ DOMAIN frames # {}
    /\ DateAt(frames[NextFrame]) < frames[NextFrame].nr.start
    /\ ~OnBoundary(DateAt(frames[NextFrame]), frames[NextFrame].granularity)

(***************************************************************************)
(* C13.  For every date d and every granularity g,                         *)
(* floor(d, g) <= d <= ceil(d, g).  The dates are the ends of the value    *)
(* of a state: every timestamp of Dates in the initial states, the floors   *)
(* and ceils themselves after a switch.                                    *)
(***************************************************************************)
C13_FloorBelowCeilAbove ==
    \A d \in {value.start, value.end}, g \in Granularities :
        FloorToGranularity(d, g) <= d /\ d <= CeilToGranularity(d, g)

\* a switch to quarters applied floor and ceil to an instant inside a
\* quarter: the committed start is before it and the end after it
C13_Witness ==
    /\ ~snap /\ granularity = "quarter" /\ emitted = <<value>>
    /\ value.start = NewDate(EpochYear, 3, 1)
    /\ value.end = NewDate(EpochYear, 6, 1)

\* d is in the last period of its year: ceil has to cross the year's end
LastOfYear(d, g) ==
    \/ g = "year"
    \/ g = "quarter" /\ getMonth(d) >= 9
    \/ g = "month" /\ getMonth(d) = 11
    \/ g = "day" /\ getMonth(d) = 11 /\ getDate(d) = 31

(***************************************************************************)
(* C14.  ceil(d, g) is d when d is on a g-boundary.  Otherwise it is the   *)
(* start of the period that follows the period of d: a boundary after d    *)
(* whose preceding instant still floors to floor(d, g); and when d is in   *)
(* the last period of its year (December for months, Q4 for quarters) it   *)
(* is 1 January of the next year.                                          *)
(***************************************************************************)
C14_CeilNextPeriod ==
    \A d \in {value.start, value.end}, g \in Granularities :
        LET f == FloorToGranularity(d, g)
            c == CeilToGranularity(d, g)
        IN  IF f = d THEN c = d
            ELSE /\ c > d
                 /\ FloorToGranularity(c, g) = c
                 /\ FloorToGranularity(c - 1, g) = f
                 /\ LastOfYear(d, g) => c = NewDate(getFullYear(d) + 1, 0, 1)

\* a switch to months on an instant in December of EpochYear committed
\* 1 December and 1 January of the next year
C14_Witness ==
    /\ granularity = "month" /\ emitted = <<value>>
    /\ value.start = NewDate(EpochYear, 11, 1)
    /\ value.end = NewDate(EpochYear + 1, 0, 1)

(***************************************************************************)
(* C15.  floor is idempotent: for every date d and granularity g,          *)
(* floor(floor(d, g), g) = floor(d, g).                                    *)
(***************************************************************************)
C15_FloorIdempotent ==
    \A d \in {value.start, value.end}, g \in Granularities :
        FloorToGranularity(FloorToGranularity(d, g), g) = FloorToGranularity(d, g)

\* a switch to years floored an instant inside the year after EpochYear
\* to its 1 January, which floor leaves where it is
C15_Witness ==
    /\ granularity = "year" /\ emitted = <<value>>
    /\ value.start = NewDate(EpochYear + 1, 0, 1)
    /\ value.end = NewDate(EpochYear + 2, 0, 1)

(***************************************************************************)
(* C16.  With a zero-width interval, min = max, the span of the coordinate *)
(* mapper is 1, not 0, and every range handed to onChange, by a start, end *)
(* or band drag with the pointer anywhere, is {min, min}.                  *)
(***************************************************************************)
C16_ZeroWidthSelfHeals ==
    min = max =>
        /\ total = 1
        /\ \A i \in 1..Len(emitted) : emitted[i] = Range(min, min)

\* during a band drag on a zero-width interval, with no frame left
\* pending, {min, min} has been handed to onChange
C16_Witness ==
    /\ min = max /\ dragging = "range" /\ emitted = <<Range(min, min)>>
    /\ raf # 0 /\ frames = << >>

(***************************************************************************)
(* C17.  Coordinate round trip: for every date d in [min, max],            *)
(* fromPct(toPct(d)) = d, with toPct(d) = 100 * (d - min) / total,         *)
(* fromPct(p) = min + (p / 100) * total and total = max(1, max - min).     *)
(* The arithmetic is exact here; the code's is in double precision.        *)
(***************************************************************************)
C17_RoundTrip == \A d \in min..max : FromPct(ToPct(d)) = d

\* a render whose start handle sits strictly inside bounds that do not
\* start at the epoch, at a percentage that is not a whole number
C17_Witness ==
    /\ min # 0
    /\ min < normalizedRange.start /\ normalizedRange.start < max
    /\ ToPct(normalizedRange.start).num % ToPct(normalizedRange.start).den # 0

(***************************************************************************)
(* C18.  A pointer-move handled while the state machine is idle requests   *)
(* no animation frame, hands nothing to onChange and leaves the range, the *)
(* granularity and the drag target as they were.                           *)
(***************************************************************************)
C18_Step ==
    (dragging = "null" /\ \E clientX \in ClientXs : PointerMove(clientX))
        => /\ UNCHANGED <<raf, frames, nextHandle>>
           /\ emitted' = << >>
           /\ UNCHANGED <<value, granularity, dragging>>

C18_IdleMoveNoEffect == [][C18_Step]_vars

\* idle with no frame ever requested, after a switch to days and then a
\* step that handed nothing to onChange
C18_Witness ==
    /\ dragging = "null" /\ nextHandle = 1 /\ raf = 0
    /\ granularity = "day" /\ emitted = << >>

(***************************************************************************)
(* C19.  A committed range is a fixed point of the normalizer: the range a *)
(* frame's commitDrag hands to onChange, normalized with the same min,     *)
(* max, snap and the granularity commitDrag used, is that range; and the   *)
(* range a granularity switch hands to onChange, normalized with the new   *)
(* granularity, is that range.                                             *)
(***************************************************************************)
C19_Step ==
    /\ (TickStep /\ emitted' # << >>)
          => LET r == emitted'[1]
                 g == frames[NextFrame].granularity
             IN  NormalizedRange(r, min, max, snap, g) = r
    /\ SwitchStep
          => LET r == emitted'[1]
             IN  NormalizedRange(r, min, max, snap, granularity') = r

C19_CommitIsFixedPoint == [][C19_Step]_vars

\* a snapped end-handle drag committed a range whose start is a min off the
\* grid: fed back, it is floored below min and clamped to min again
C19_Witness ==
    /\ snap /\ dragging = "end" /\ emitted = <<value>>
    /\ value.start = min /\ ~OnBoundary(min, granularity)
    /\ value.end < max /\ normalizedRange = value

(***************************************************************************)
(* C20.  With snap on, a frame of a band drag never shrinks the selection: *)
(* the committed range is at least as long as the range the move saw, and  *)
(* no longer than max - min.                                               *)
(***************************************************************************)
C20_Step ==
    (TickStep /\ dragging = "range" /\ snap)
        => LET nr == frames[NextFrame].nr IN
           /\ Len(emitted') = 1
           /\ emitted'[1].end - emitted'[1].start >= nr.end - nr.start
           /\ emitted'[1].end - emitted'[1].start <= max - min

C20_SnapBandNeverShrinks == [][C20_Step]_vars

\* the frame of a second move, a snapped band drag to the left edge: the
\* selection is 1 January to 1 August
C20_Witness ==
    /\ snap /\ dragging = "range" /\ granularity = "month"
    /\ nextHandle = 3 /\ frames = << >>
    /\ emitted = <<value>>
    /\ value = Range(NewDate(EpochYear, 0, 1), NewDate(EpochYear, 7, 1))

====
